---- MODULE Spec2Model ----
(***************************************************************************)
(* Model of app.py: the findings pipeline of the dashboard script.         *)
(*   load -> drop_noise_columns -> add_req_text -> sidebar criteria ->     *)
(*   filtering block -> result table.                                      *)
(*                                                                         *)
(* Text is a sequence of characters.  A Hangul syllable of the source is   *)
(* written as one character token in Latin letters (its romanisation), so  *)
(* "jo","hang" is the two-character column name of line 78.                *)
(* A cell is [kind, s]: kind "str" with its text s, or kind "nan" (a null  *)
(* cell as pandas reads it from an empty spreadsheet cell).                *)
(* A table is [cols, index, rows]: the ordered column names, the pandas    *)
(* index labels of the rows, and the rows (functions column name -> cell). *)
(***************************************************************************)
EXTENDS Integers, Sequences, FiniteSets, TLC

VARIABLES pc, loaded, stripped, findings, standards, crit, df

vars == <<pc, loaded, stripped, findings, standards, crit, df>>

\* ------------------------------------------------------------ bounds
MaxRows == 2
MaxStdRows == 2
MaxSel == 1

\* ------------------------------------------------------------ text
Range(s) == {s[i] : i \in DOMAIN s}

UpperCase == <<"A","B","C","D","E","F","G","H","I","J","K","L","M",
               "N","O","P","Q","R","S","T","U","V","W","X","Y","Z">>
LowerCase == <<"a","b","c","d","e","f","g","h","i","j","k","l","m",
               "n","o","p","q","r","s","t","u","v","w","x","y","z">>

Lower(c) ==
  IF \E i \in DOMAIN UpperCase : UpperCase[i] = c
  THEN LowerCase[CHOOSE i \in DOMAIN UpperCase : UpperCase[i] = c]
  ELSE c

StartsWith(s, p) ==
  /\ Len(p) <= Len(s)
  /\ \A k \in 1..Len(p) : s[k] = p[k]

\* one pattern character against one text character, as the regular
\* expression engine does it: "." is the wildcard, anything else is itself
RegexCharMatch(p, c, ignorecase) ==
  \/ p = "."
  \/ IF ignorecase THEN Lower(p) = Lower(c) ELSE p = c

\* Series.str.contains(pat, case=..., regex=True): re.search of pat in text
StrContains(text, pat, ignorecase) ==
  \E i \in 0..(Len(text) - Len(pat)) :
    \A k \in 1..Len(pat) : RegexCharMatch(pat[k], text[i + k], ignorecase)

\* ------------------------------------------------------------ cells
NAN_TEXT == <<"n","a","n">>
NONE_TEXT == <<"N","o","n","e">>
EMPTY_TEXT == <<>>

NaN == [kind |-> "nan", s |-> EMPTY_TEXT]
Str(t) == [kind |-> "str", s |-> t]

\* str(v) / astype(str) of one cell
StrOf(cell) == IF cell.kind = "nan" THEN NAN_TEXT ELSE cell.s

\* str(row.get(col)): an absent column gives None
StrRowGet(row, col) ==
  IF col \in DOMAIN row THEN StrOf(row[col]) ELSE NONE_TEXT

\* ------------------------------------------------------------ column names
COL_CLAUSE == <<"jo","hang">>
COL_SUB == <<"se","bu","jo","hang">>
COL_CATEGORY == <<"gu","bun">>
COL_CONTENT == <<"nae","yong">>
COL_REQ == <<"yo","gu","sa","hang">>
COL_CRITERION == <<"in","jeong","gi","jun">>
COL_ITEM == <<"hang","mog">>
COL_CLAUSE_EN == <<"C","l","a","u","s","e">>
COL_REQ_EN == <<"R","e","q","u","i","r","e","m","e","n","t">>
COL_REMARK == <<"bi","go">>
COL_UNNAMED0 == <<"U","n","n","a","m","e","d",":"," ","0">>
COL_UN == <<"U","n">>
COL_INSTITUTION == <<"gi","gwan","myeong">>
COL_ISSUE_NO == <<"bal","haeng","beon","ho">>

UNNAMED == <<"U","n","n","a","m","e","d">>

noise == { <<"gi","gwan","myeong">>, <<"pyeong","ga","jong","ryu">>,
           <<"si","jag","il">>, <<"jong","ryo","il">>,
           <<"bal","haeng","beon","ho">> }

ClauseNames == {COL_CLAUSE, COL_CLAUSE_EN, COL_ITEM}
ReqNames == {COL_REQ, COL_REQ_EN, COL_CONTENT}

\* ------------------------------------------------------------ tables
RangeIndex(n) == [i \in 1..n |-> i - 1]

MkTable(cols, rows) ==
  [cols |-> cols, index |-> RangeIndex(Len(rows)), rows |-> rows]

HasCol(t, c) == c \in Range(t.cols)

NRows(t) == Len(t.rows)

\* the column c of t as the sequence of its cells
Column(t, c) == [i \in DOMAIN t.rows |-> t.rows[i][c]]

\* t[c] = vals: replaces the column in place, or appends a new last column
SetColumn(t, c, vals) ==
  LET cols2 == IF HasCol(t, c) THEN t.cols ELSE Append(t.cols, c)
  IN [cols |-> cols2,
      index |-> t.index,
      rows |-> [i \in DOMAIN t.rows |->
                  [d \in Range(cols2) |->
                     IF d = c THEN vals[i] ELSE t.rows[i][d]]]]

\* t[mask]: the rows whose mask is true, with their index labels, in order
RECURSIVE KeptPositions(_, _)
KeptPositions(mask, n) ==
  IF n = 0 THEN <<>>
  ELSE IF mask[n] THEN Append(KeptPositions(mask, n - 1), n)
       ELSE KeptPositions(mask, n - 1)

\* variant: the kept rows renumbered from 0, as after reset_index(drop=True)
BoolIndex_reset(t, mask) ==
  LET pos == KeptPositions(mask, NRows(t))
  IN [cols |-> t.cols,
      index |-> RangeIndex(Len(pos)),
      rows |-> [k \in DOMAIN pos |-> t.rows[pos[k]]]]

BoolIndex(t, mask) ==
  LET pos == KeptPositions(mask, NRows(t))
  IN [cols |-> t.cols,
      index |-> [k \in DOMAIN pos |-> t.index[pos[k]]],
      rows |-> [k \in DOMAIN pos |-> t.rows[pos[k]]]]

\* ------------------------------------------------------------ default data
T7 == <<"7">>
T71 == <<"7",".","1">>
T72 == <<"7",".","2">>
T83 == <<"8",".","3">>
T91 == <<"9",".","1">>
T92 == <<"9",".","2">>
T_NC == <<"bu","jeog","hab">>
T_REC == <<"gwon","go">>
T_KAB == <<"K","A","B","-","R","-","M","S","C","B">>

DefaultClause == <<T7, T71, T72, T83, T91, T92>>
DefaultSub == << <<"7",".","1">>, <<"7",".","1",".","1">>,
                 <<"7",".","1",".","2">>, <<"8",".","3",".","1">>,
                 <<"9",".","1",".","1">>, <<"9",".","2",".","2">> >>
DefaultCategory == <<T_NC, T_REC, T_NC, T_REC, T_NC, T_REC>>
DefaultContent == <<
  <<"jo","jig","eun"," ","pum","jil","gyeong","yeong","si","seu","tem"," ",
    "ja","won","ui"," ","chung","bun","seong","eul"," ","hwag","bo","ha",
    "ji"," ","mos","ham",".">>,
  <<"peu","ro","se","seu"," ","un","yeong","gye","hoeg","seo","e"," ","in",
    "won"," ","bae","chi","ga"," ","mi","heub","ham",".">>,
  <<"go","gaeg"," ","yo","gu","sa","hang"," ","geom","to"," ","jeol","cha",
    " ","mi","i","haeng",".">>,
  <<"byeon","gyeong","gwan","ri"," ","jeol","cha","seo","ga"," ","choe",
    "sin","hwa","doe","eo"," ","iss","ji"," ","anh","eum",".">>,
  <<"nae","bu","sim","sa"," ","gye","hoeg","i"," ","jeog","si","e"," ","su",
    "rib","doe","ji"," ","anh","eum",".">>,
  <<"go","gaeg","man","jog","do"," ","jo","sa"," ","jeol","cha"," ","gae",
    "seon"," ","pil","yo",".">> >>
DefaultRequirement == <<
  <<"jo","jig","eun"," ","pil","yo","han"," ","ja","won","eul"," ","gyeol",
    "jeong","ha","go"," ","je","gong","hae","ya"," ","han","da",".">>,
  <<"jo","jig","eun"," ","in","peu","ra","reul"," ","po","ham","han"," ",
    "pil","yo","han"," ","ja","won","eul"," ","je","gong","hae","ya"," ",
    "han","da",".">>,
  <<"jo","jig","eun"," ","in","jeog"," ","ja","won","ui"," ","yeog","ryang",
    "eul"," ","bo","jang","hae","ya"," ","han","da",".">>,
  <<"je","pum"," ","mich"," ","seo","bi","seu"," ","seol","gye","gae","bal",
    "eul"," ","gwan","ri","hae","ya"," ","han","da",".">>,
  <<"mo","ni","teo","ring"," ","mich"," ","cheug","jeong","eul"," ","tong",
    "hae"," ","si","seu","tem"," ","seong","gwa","reul"," ","pyeong","ga",
    "hae","ya"," ","han","da",".">>,
  <<"nae","bu","sim","sa","reul"," ","gye","hoeg","ha","go"," ","sil","si",
    "hae","ya"," ","han","da",".">> >>

DEFAULT_FINDINGS ==
  MkTable(<<COL_CRITERION, COL_CLAUSE, COL_SUB, COL_CATEGORY, COL_CONTENT>>,
          [i \in 1..6 |->
             (COL_CRITERION :> Str(T_KAB)) @@
             (COL_CLAUSE :> Str(DefaultClause[i])) @@
             (COL_SUB :> Str(DefaultSub[i])) @@
             (COL_CATEGORY :> Str(DefaultCategory[i])) @@
             (COL_CONTENT :> Str(DefaultContent[i]))])

DEFAULT_STANDARDS ==
  MkTable(<<COL_CLAUSE, COL_REQ>>,
          [i \in 1..6 |->
             (COL_CLAUSE :> Str(DefaultClause[i])) @@
             (COL_REQ :> Str(DefaultRequirement[i]))])

\* ------------------------------------------------------------ utilities
\* variant: only the five named columns are dropped
drop_noise_columns_named_only(t) ==
  LET kept == SelectSeq(t.cols, LAMBDA c : c \notin noise)
  IN [cols |-> kept,
      index |-> t.index,
      rows |-> [i \in DOMAIN t.rows |->
                  [c \in Range(kept) |-> t.rows[i][c]]]]

drop_noise_columns(t) ==
  LET unnamed == SelectSeq(t.cols, LAMBDA c : StartsWith(c, UNNAMED))
      dropped == noise \cup Range(unnamed)
      kept == SelectSeq(t.cols, LAMBDA c : c \notin dropped)
  IN [cols |-> kept,
      index |-> t.index,
      rows |-> [i \in DOMAIN t.rows |->
                  [c \in Range(kept) |-> t.rows[i][c]]]]

\* next((c for c in std_cols if c in names), None): 0 stands for None
FirstCol(cols, names) ==
  IF \E i \in DOMAIN cols : cols[i] \in names
  THEN CHOOSE i \in DOMAIN cols :
         /\ cols[i] \in names
         /\ \A j \in 1..(i - 1) : cols[j] \notin names
  ELSE 0

\* variant: the last matching standards row, .values[-1]
FirstReq_last(clauses, reqs, key) ==
  reqs[CHOOSE i \in DOMAIN clauses :
         /\ clauses[i] = key
         /\ \A j \in (i + 1)..Len(clauses) : clauses[j] # key]

\* std.loc[std[clause_col] == key, req_col].values[0]
FirstReq(clauses, reqs, key) ==
  reqs[CHOOSE i \in DOMAIN clauses :
         /\ clauses[i] = key
         /\ \A j \in 1..(i - 1) : clauses[j] # key]

\* variant: the clause is tried before the sub-clause
match_req_main_first(row, clauses, reqs) ==
  LET sub == StrRowGet(row, COL_SUB)
      main == StrRowGet(row, COL_CLAUSE)
  IN IF main \in Range(clauses) THEN FirstReq(clauses, reqs, main)
     ELSE IF sub \in Range(clauses) THEN FirstReq(clauses, reqs, sub)
     ELSE Str(EMPTY_TEXT)

\* clauses: std[clause_col] after astype(str); reqs: std[req_col]
match_req(row, clauses, reqs) ==
  LET sub == StrRowGet(row, COL_SUB)
      main == StrRowGet(row, COL_CLAUSE)
  IN IF sub \in Range(clauses) THEN FirstReq(clauses, reqs, sub)
     ELSE IF main \in Range(clauses) THEN FirstReq(clauses, reqs, main)
     ELSE Str(EMPTY_TEXT)

\* None, as distinct from a table without columns
NoStandards == [none |-> TRUE]

\* variant: an inner join, findings without a matching clause are dropped
add_req_text_inner(f, std) ==
  IF std = NoStandards THEN f
  ELSE
  LET ci == FirstCol(std.cols, ClauseNames)
      ri == FirstCol(std.cols, ReqNames)
  IN IF ci = 0 \/ ri = 0 THEN f
     ELSE LET clauses == [i \in DOMAIN std.rows |->
                            StrOf(std.rows[i][std.cols[ci]])]
              reqs == Column(std, std.cols[ri])
              t == SetColumn(f, COL_REQ,
                             [i \in DOMAIN f.rows |->
                                match_req(f.rows[i], clauses, reqs)])
          IN BoolIndex(t, [i \in DOMAIN t.rows |->
                             t.rows[i][COL_REQ] # Str(EMPTY_TEXT)])

add_req_text(f, std) ==
  IF std = NoStandards THEN f
  ELSE
  LET ci == FirstCol(std.cols, ClauseNames)
      ri == FirstCol(std.cols, ReqNames)
  IN IF ci = 0 \/ ri = 0 THEN f
     ELSE LET clauses == [i \in DOMAIN std.rows |->
                            StrOf(std.rows[i][std.cols[ci]])]
              reqs == Column(std, std.cols[ri])
          IN SetColumn(f, COL_REQ,
                       [i \in DOMAIN f.rows |->
                          match_req(f.rows[i], clauses, reqs)])

\* ------------------------------------------------------------ uploads
\* The spreadsheets a user can upload, drawn from a few rows and layouts.
TX == <<"x">>
TOLD == <<"o","l","d">>

FindingCells ==
  { [cl |-> Str(T7), sub |-> Str(T71), cat |-> Str(T_NC),
     content |-> Str(<<"A","b">>)],
    [cl |-> Str(<<"7","1","1">>), sub |-> NaN, cat |-> Str(T_REC),
     content |-> NaN],
    [cl |-> Str(<<"8">>), sub |-> Str(<<"7",".","1",".","1">>),
     cat |-> Str(T_NC),
     content |-> Str(<<"b",".">>)],
    [cl |-> NaN, sub |-> Str(<<"9">>), cat |-> NaN,
     content |-> Str(<<"7","a","1">>)] }

FindingLayouts ==
  { <<COL_CLAUSE, COL_SUB, COL_CATEGORY, COL_CONTENT>>,
    <<COL_INSTITUTION, COL_CLAUSE, COL_UNNAMED0, COL_SUB, COL_CATEGORY,
      COL_CONTENT, COL_ISSUE_NO>>,
    <<COL_CLAUSE, COL_CATEGORY>>,
    <<COL_REQ, COL_CLAUSE, COL_SUB, COL_CONTENT, COL_UN>> }

FindingRow(cols, b) ==
  [c \in Range(cols) |->
     CASE c = COL_CLAUSE -> b.cl
       [] c = COL_SUB -> b.sub
       [] c = COL_CATEGORY -> b.cat
       [] c = COL_CONTENT -> b.content
       [] c = COL_REQ -> Str(TOLD)
       [] OTHER -> Str(TX)]

SeqsUpTo(S, n) == UNION {[1..k -> S] : k \in 0..n}

UploadedFindings ==
  { MkTable(cols, [i \in DOMAIN bs |-> FindingRow(cols, bs[i])]) :
      cols \in FindingLayouts, bs \in SeqsUpTo(FindingCells, MaxRows) }

StandardCells ==
  { [cl |-> Str(T71), req |-> Str(<<"X">>)],
    [cl |-> Str(T71), req |-> Str(<<"Y">>)],
    [cl |-> Str(T7), req |-> NaN],
    [cl |-> NaN, req |-> Str(<<"Z">>)] }

StandardLayouts ==
  { <<COL_CLAUSE, COL_REQ>>,
    <<COL_ITEM, COL_CLAUSE, COL_CONTENT>>,
    <<COL_REMARK, COL_REQ>> }

\* in the second layout the first recognised clause column is COL_ITEM
StandardRow(cols, b) ==
  [c \in Range(cols) |->
     CASE c = cols[1] -> b.cl
       [] c \in ReqNames -> b.req
       [] OTHER -> Str(TX)]

UploadedStandards ==
  { MkTable(cols, [i \in DOMAIN bs |-> StandardRow(cols, bs[i])]) :
      cols \in StandardLayouts, bs \in SeqsUpTo(StandardCells, MaxStdRows) }

\* ------------------------------------------------------------ the script
NoTable == MkTable(<<>>, <<>>)

NoCriteria ==
  [clause_sel |-> {}, sub_sel |-> {}, category_sel |-> {},
   keyword |-> EMPTY_TEXT, clause_search |-> EMPTY_TEXT,
   btn_search |-> FALSE]

Init ==
  /\ pc = "load"
  /\ loaded = NoTable
  /\ stripped = NoTable
  /\ findings = NoTable
  /\ standards = NoTable
  /\ crit = NoCriteria
  /\ df = NoTable

\* lines 131-133: nothing uploaded, the sample data
LoadDefault ==
  /\ pc = "load"
  /\ loaded' = DEFAULT_FINDINGS
  /\ findings' = DEFAULT_FINDINGS
  /\ standards' = DEFAULT_STANDARDS
  /\ pc' = "strip"
  /\ UNCHANGED <<stripped, crit, df>>

\* lines 127-129: both sheets read from the uploaded file
LoadUploaded ==
  /\ pc = "load"
  /\ \E F \in UploadedFindings, S \in UploadedStandards :
       /\ loaded' = F
       /\ findings' = F
       /\ standards' = S
  /\ pc' = "strip"
  /\ UNCHANGED <<stripped, crit, df>>

\* lines 128-130: the second sheet cannot be read, the default standards
LoadUploadedNoStandards ==
  /\ pc = "load"
  /\ \E F \in UploadedFindings :
       /\ loaded' = F
       /\ findings' = F
  /\ standards' = DEFAULT_STANDARDS
  /\ pc' = "strip"
  /\ UNCHANGED <<stripped, crit, df>>

\* line 135
DropNoise ==
  /\ pc = "strip"
  /\ findings' = drop_noise_columns(findings)
  /\ stripped' = drop_noise_columns(findings)
  /\ pc' = "enrich"
  /\ UNCHANGED <<loaded, standards, crit, df>>

\* line 136
AddReqText ==
  /\ pc = "enrich"
  /\ findings' = add_req_text(findings, standards)
  /\ pc' = "ready"
  /\ UNCHANGED <<loaded, stripped, standards, crit, df>>

\* ------------------------------------------------------------ sidebar
\* lines 140-142: the options of a multiselect
Options(t, c) ==
  IF HasCol(t, c)
  THEN {StrOf(t.rows[i][c]) : i \in {j \in DOMAIN t.rows :
                                        t.rows[j][c].kind # "nan"}}
  ELSE {}

SubsetsUpTo(S, n) == {X \in SUBSET S : Cardinality(X) <= n}

\* lines 143-144: what the user types in the two text inputs
KeywordTexts == {EMPTY_TEXT, <<"a">>, <<".">>}
ClauseSearchTexts == {EMPTY_TEXT, T71, <<"9">>}

\* ------------------------------------------------------------ filtering
\* variant: the test for an empty selection is missing
IsinFilter_unguarded(t, c, sel) ==
  IF HasCol(t, c)
  THEN BoolIndex(t, [i \in DOMAIN t.rows |-> StrOf(t.rows[i][c]) \in sel])
  ELSE t

\* lines 152-154: t[t[c].astype(str).isin(sel)]
IsinFilter(t, c, sel) ==
  IF HasCol(t, c) /\ sel # {}
  THEN BoolIndex(t, [i \in DOMAIN t.rows |-> StrOf(t.rows[i][c]) \in sel])
  ELSE t

\* line 155
KeywordFilter(t, keyword) ==
  IF HasCol(t, COL_CONTENT) /\ keyword # EMPTY_TEXT
  THEN BoolIndex(t, [i \in DOMAIN t.rows |->
                       StrContains(StrOf(t.rows[i][COL_CONTENT]), keyword,
                                   TRUE)])
  ELSE t

\* lines 156-160
ClauseSearchFilter(t, search) ==
  IF search # EMPTY_TEXT
  THEN BoolIndex(t, [i \in DOMAIN t.rows |->
         \/ /\ HasCol(t, COL_CLAUSE)
            /\ StrContains(StrOf(t.rows[i][COL_CLAUSE]), search, FALSE)
         \/ /\ HasCol(t, COL_SUB)
            /\ StrContains(StrOf(t.rows[i][COL_SUB]), search, FALSE)])
  ELSE t

\* variant: the filters run only when the search button was pressed
filtering_button_only(t, c) ==
  IF c.btn_search
  THEN ClauseSearchFilter(
         KeywordFilter(
           IsinFilter(
             IsinFilter(
               IsinFilter(t, COL_CLAUSE, c.clause_sel),
               COL_SUB, c.sub_sel),
             COL_CATEGORY, c.category_sel),
           c.keyword),
         c.clause_search)
  ELSE t

\* lines 150-160
filtering(t, c) ==
  IF \/ c.btn_search
     \/ c.clause_sel # {} \/ c.sub_sel # {} \/ c.category_sel # {}
     \/ c.keyword # EMPTY_TEXT \/ c.clause_search # EMPTY_TEXT
  THEN ClauseSearchFilter(
         KeywordFilter(
           IsinFilter(
             IsinFilter(
               IsinFilter(t, COL_CLAUSE, c.clause_sel),
               COL_SUB, c.sub_sel),
             COL_CATEGORY, c.category_sel),
           c.keyword),
         c.clause_search)
  ELSE t

\* lines 140-147: the state of the sidebar widgets in this run
SetCriteria ==
  /\ pc = "ready"
  /\ \E cs \in SubsetsUpTo(Options(findings, COL_CLAUSE), MaxSel),
        ss \in SubsetsUpTo(Options(findings, COL_SUB), MaxSel),
        gs \in SubsetsUpTo(Options(findings, COL_CATEGORY), MaxSel),
        kw \in KeywordTexts,
        cq \in ClauseSearchTexts,
        btn \in BOOLEAN :
       crit' = [clause_sel |-> cs, sub_sel |-> ss, category_sel |-> gs,
                keyword |-> kw, clause_search |-> cq, btn_search |-> btn]
  /\ pc' = "filter"
  /\ UNCHANGED <<loaded, stripped, findings, standards, df>>

\* lines 150-160
Filtering ==
  /\ pc = "filter"
  /\ df' = filtering(findings, crit)
  /\ pc' = "shown"
  /\ UNCHANGED <<loaded, stripped, findings, standards, crit>>

Next ==
  \/ LoadDefault
  \/ LoadUploaded
  \/ LoadUploadedNoStandards
  \/ DropNoise
  \/ AddReqText

Spec == Init /\ [][Next]_vars

\* The script from the sidebar on, started from the tables that lines
\* 126-136 produce for the sample data and for an upload whose second
\* sheet is missing.
InitFilter ==
  /\ pc = "ready"
  /\ \E F \in UploadedFindings \cup {DEFAULT_FINDINGS} :
       /\ loaded = F
       /\ stripped = drop_noise_columns(F)
       /\ findings = add_req_text(drop_noise_columns(F), DEFAULT_STANDARDS)
  /\ standards = DEFAULT_STANDARDS
  /\ crit = NoCriteria
  /\ df = NoTable

NextFilter ==
  \/ SetCriteria
  \/ Filtering

SpecFilter == InitFilter /\ [][NextFilter]_vars

\* ============================================================ properties

\* the standards table has a recognised clause column and requirement column
Recognised ==
  /\ FirstCol(standards.cols, ClauseNames) # 0
  /\ FirstCol(standards.cols, ReqNames) # 0

\* the string-normalised clause identifier and the requirement cell of
\* standards row j
StdClauseId(j) ==
  StrOf(standards.rows[j][standards.cols[FirstCol(standards.cols,
                                                  ClauseNames)]])
StdReqCell(j) ==
  standards.rows[j][standards.cols[FirstCol(standards.cols, ReqNames)]]

\* row j is the first standards row whose clause identifier is the text key
FirstStdRow(j, key) ==
  /\ StdClauseId(j) = key
  /\ \A k \in 1..(j - 1) : StdClauseId(k) # key

\* the string forms of the sub-clause and the clause of input row i
SubText(i) == StrRowGet(stripped.rows[i], COL_SUB)
MainText(i) == StrRowGet(stripped.rows[i], COL_CLAUSE)

\* C1: after enrichment against standards with recognised columns, a row
\* whose sub-clause text equals a standards clause identifier has the
\* requirement cell of the first such standards row; otherwise a row whose
\* clause text equals one has that of the first such row; otherwise its
\* requirement is the empty string.  Equality of the whole text only.
C1_MatchRule ==
  (pc = "ready" /\ Recognised) =>
    \A i \in DOMAIN findings.rows :
      LET req == findings.rows[i][COL_REQ]
          ids == {StdClauseId(j) : j \in DOMAIN standards.rows}
      IN /\ SubText(i) \in ids =>
              \E j \in DOMAIN standards.rows :
                FirstStdRow(j, SubText(i)) /\ req = StdReqCell(j)
         /\ (SubText(i) \notin ids /\ MainText(i) \in ids) =>
              \E j \in DOMAIN standards.rows :
                FirstStdRow(j, MainText(i)) /\ req = StdReqCell(j)
         /\ (SubText(i) \notin ids /\ MainText(i) \notin ids) =>
              req = Str(EMPTY_TEXT)

\* a row matched through its sub-clause although its clause matches too,
\* against standards that list the sub-clause twice with different texts,
\* and a clause identifier that is a proper prefix of another text
C1_Witness ==
  /\ pc = "ready" /\ Recognised
  /\ \E i \in DOMAIN findings.rows :
       /\ findings.rows[i][COL_REQ].kind = "str"
       /\ \E j, k \in DOMAIN standards.rows :
            /\ j < k
            /\ StdClauseId(j) = SubText(i)
            /\ StdClauseId(k) = SubText(i)
            /\ StdReqCell(j) # StdReqCell(k)
            /\ findings.rows[i][COL_REQ] = StdReqCell(j)
  /\ \E i \in DOMAIN findings.rows :
       /\ findings.rows[i][COL_REQ] = Str(EMPTY_TEXT)
       /\ \E j \in DOMAIN standards.rows :
            /\ StdClauseId(j) # SubText(i)
            /\ StartsWith(SubText(i), StdClauseId(j))

\* the sample data was loaded and enriched
DefaultRun ==
  /\ pc = "ready"
  /\ loaded = DEFAULT_FINDINGS
  /\ standards = DEFAULT_STANDARDS

\* the first sample row is the one with clause 7, sub-clause 7.1
DefaultRow1 ==
  /\ findings.rows[1][COL_CLAUSE] = Str(<<"7">>)
  /\ findings.rows[1][COL_SUB] = Str(<<"7",".","1">>)
  /\ findings.rows[1][COL_CATEGORY] = Str(<<"bu","jeog","hab">>)
  /\ findings.rows[1][COL_CONTENT] = Str(DefaultContent[1])

\* C2 as stated: the sample row with clause 7 and sub-clause 7.1 gets the
\* requirement text of standards clause 7 (line 93)
C2_Original ==
  DefaultRun =>
    /\ DefaultRow1
    /\ findings.rows[1][COL_REQ] = Str(DefaultRequirement[1])

\* C2 amended: the sample row with clause 7 and sub-clause 7.1 gets the
\* requirement text of standards clause 7.1 (line 94), the standards row
\* whose clause identifier is the row's sub-clause
C2_Amended ==
  DefaultRun =>
    /\ DefaultRow1
    /\ StdClauseId(2) = SubText(1)
    /\ findings.rows[1][COL_REQ] = Str(DefaultRequirement[2])
    /\ DefaultRequirement[2] # DefaultRequirement[1]

C2_Witness ==
  /\ DefaultRun
  /\ NRows(findings) = 6
  /\ findings.rows[1][COL_REQ] = StdReqCell(2)

\* C3: after enrichment against standards with recognised columns the
\* requirement of every row is a string, never null, and it is the empty
\* string when no standards clause identifier matches
C3_RequirementIsString ==
  (pc = "ready" /\ Recognised) =>
    \A i \in DOMAIN findings.rows :
      LET ids == {StdClauseId(j) : j \in DOMAIN standards.rows}
      IN /\ findings.rows[i][COL_REQ].kind = "str"
         /\ (SubText(i) \notin ids /\ MainText(i) \notin ids) =>
              findings.rows[i][COL_REQ] = Str(EMPTY_TEXT)

\* the label of every row of the result, as a set
ResultLabels == Range(df.index)

\* C4: the filtered result is a subsequence of the enriched table: same
\* columns, every output row is the row of T with its index label, labels
\* strictly increasing (no duplicate, original order)
C4_Subsequence ==
  pc = "shown" =>
    /\ df.cols = findings.cols
    /\ Len(df.index) = Len(df.rows)
    /\ \A k \in DOMAIN df.rows :
         /\ df.index[k] \in 0..(NRows(findings) - 1)
         /\ df.rows[k] = findings.rows[df.index[k] + 1]
    /\ \A k \in 1..(Len(df.index) - 1) : df.index[k] < df.index[k + 1]

\* several rows kept and at least one row in between or around dropped
C4_Witness ==
  /\ pc = "shown"
  /\ NRows(df) >= 2
  /\ \E l \in 0..(NRows(findings) - 1) :
       /\ l \notin ResultLabels
       /\ \E a, b \in ResultLabels : a < l /\ l < b

\* row i of T satisfies the set criterion sel on column c
SetCriterionHolds(i, c, sel) ==
  sel = {} \/ (HasCol(findings, c) /\ StrOf(findings.rows[i][c]) \in sel)

\* C5: with both text criteria empty a row is in the result exactly when
\* every non-empty set criterion contains the string form of its field
C5_SetCriteriaAnd ==
  (pc = "shown" /\ crit.keyword = EMPTY_TEXT
               /\ crit.clause_search = EMPTY_TEXT) =>
    \A i \in DOMAIN findings.rows :
      (findings.index[i] \in ResultLabels) <=>
        /\ SetCriterionHolds(i, COL_CLAUSE, crit.clause_sel)
        /\ SetCriterionHolds(i, COL_SUB, crit.sub_sel)
        /\ SetCriterionHolds(i, COL_CATEGORY, crit.category_sel)

\* two set criteria at once: one row passes both, another passes the
\* category criterion and is dropped by the clause criterion
C5_Witness ==
  /\ pc = "shown"
  /\ crit.keyword = EMPTY_TEXT /\ crit.clause_search = EMPTY_TEXT
  /\ crit.clause_sel # {} /\ crit.category_sel # {} /\ crit.sub_sel = {}
  /\ NRows(df) >= 1
  /\ \E i \in DOMAIN findings.rows :
       /\ findings.index[i] \notin ResultLabels
       /\ StrOf(findings.rows[i][COL_CATEGORY]) \in crit.category_sel

AllCriteriaEmpty ==
  /\ crit.clause_sel = {} /\ crit.sub_sel = {} /\ crit.category_sel = {}
  /\ crit.keyword = EMPTY_TEXT /\ crit.clause_search = EMPTY_TEXT

\* C6: with every criterion empty the result is the enriched table itself,
\* button pressed or not; and for any criteria the result is the one the
\* script computes with the button in the other position
C6_ButtonIrrelevant ==
  pc = "shown" =>
    /\ AllCriteriaEmpty => df = findings
    /\ df = filtering(findings,
                      [crit EXCEPT !.btn_search = ~crit.btn_search])

\* the button pressed with nothing selected or typed, on a table with rows
C6_Witness ==
  /\ pc = "shown"
  /\ AllCriteriaEmpty
  /\ crit.btn_search
  /\ NRows(findings) >= 2
  /\ df = findings

\* text t contains text p as a literal substring, case folded or not
LiteralContains(t, p, fold) ==
  \E i \in 0..(Len(t) - Len(p)) :
    \A k \in 1..Len(p) :
      IF fold THEN Lower(t[i + k]) = Lower(p[k]) ELSE t[i + k] = p[k]

\* C7 as stated: with a non-empty keyword no row whose content is null or
\* missing is in the result, and a row with content is in the result only
\* if the content contains the keyword as a case-insensitive substring
\* (and, the other criteria being empty, whenever it does)
C7_KeywordFilter ==
  (pc = "shown" /\ crit.keyword # EMPTY_TEXT) =>
    \A i \in DOMAIN findings.rows :
      LET passes ==
            /\ HasCol(findings, COL_CONTENT)
            /\ findings.rows[i][COL_CONTENT].kind = "str"
            /\ LiteralContains(findings.rows[i][COL_CONTENT].s,
                               crit.keyword, TRUE)
          others ==
            /\ crit.clause_sel = {} /\ crit.sub_sel = {}
            /\ crit.category_sel = {} /\ crit.clause_search = EMPTY_TEXT
      IN /\ findings.index[i] \in ResultLabels => passes
         /\ (others /\ passes) => findings.index[i] \in ResultLabels

\* C8 as stated: with a non-empty clause search text a row is in the
\* result only if the text is a literal, case-sensitive substring of the
\* string form of its clause or of its sub-clause (and, the other criteria
\* being empty, whenever it is)
C8_ClauseSearchLiteral ==
  (pc = "shown" /\ crit.clause_search # EMPTY_TEXT) =>
    \A i \in DOMAIN findings.rows :
      LET passes ==
            \/ /\ HasCol(findings, COL_CLAUSE)
               /\ LiteralContains(StrOf(findings.rows[i][COL_CLAUSE]),
                                  crit.clause_search, FALSE)
            \/ /\ HasCol(findings, COL_SUB)
               /\ LiteralContains(StrOf(findings.rows[i][COL_SUB]),
                                  crit.clause_search, FALSE)
          others ==
            /\ crit.clause_sel = {} /\ crit.sub_sel = {}
            /\ crit.category_sel = {} /\ crit.keyword = EMPTY_TEXT
      IN /\ findings.index[i] \in ResultLabels => passes
         /\ (others /\ passes) => findings.index[i] \in ResultLabels

\* the rows, their order and the values of the columns in cs are the same
\* in the enriched table as in its input
SameRowsOn(cs) ==
  /\ findings.index = stripped.index
  /\ NRows(findings) = NRows(stripped)
  /\ \A i \in DOMAIN stripped.rows :
       \A c \in cs : findings.rows[i][c] = stripped.rows[i][c]

\* the input tables of the enrichment are what they were before it
InputsUntouched ==
  /\ stripped = drop_noise_columns(loaded)
  /\ standards \in UploadedStandards \cup {DEFAULT_STANDARDS}

\* C9 as stated: the enriched table has the rows of its input in the same
\* order and every input column, whatever its name, with the same values
C9_Original ==
  pc = "ready" =>
    /\ SameRowsOn(Range(stripped.cols))
    /\ InputsUntouched

\* C9 amended: the same for every input column other than the requirement
\* column, whose input values are overwritten
C9_Amended ==
  pc = "ready" =>
    /\ SameRowsOn(Range(stripped.cols) \ {COL_REQ})
    /\ \A k \in DOMAIN stripped.cols : findings.cols[k] = stripped.cols[k]
    /\ Range(findings.cols) \subseteq Range(stripped.cols) \cup {COL_REQ}
    /\ InputsUntouched

\* an input with a requirement column of its own and another extra column,
\* two rows, one matched and one not
C9_Witness ==
  /\ pc = "ready" /\ Recognised
  /\ HasCol(stripped, COL_REQ) /\ HasCol(stripped, COL_UN)
  /\ NRows(stripped) >= 2
  /\ \E i, j \in DOMAIN findings.rows :
       /\ findings.rows[i][COL_REQ] = Str(EMPTY_TEXT)
       /\ findings.rows[j][COL_REQ] # Str(EMPTY_TEXT)
       /\ findings.rows[j][COL_REQ] # stripped.rows[j][COL_REQ]

\* C10: stripping is idempotent, and the stripped table has the columns of
\* the loaded table, in order, minus the five noise names and the names
\* that start with Unnamed, with every row kept
C10_StripIdempotent ==
  pc \in {"enrich", "ready"} =>
    /\ drop_noise_columns(stripped) = stripped
    /\ stripped.cols =
         SelectSeq(loaded.cols,
                   LAMBDA c : /\ c \notin { <<"gi","gwan","myeong">>,
                                            <<"pyeong","ga","jong","ryu">>,
                                            <<"si","jag","il">>,
                                            <<"jong","ryo","il">>,
                                            <<"bal","haeng","beon","ho">> }
                              /\ ~StartsWith(c, <<"U","n","n","a","m","e",
                                                  "d">>))
    /\ stripped.index = loaded.index
    /\ \A i \in DOMAIN loaded.rows :
         \A c \in Range(stripped.cols) :
           stripped.rows[i][c] = loaded.rows[i][c]

\* a table with noise columns, a placeholder column and rows; and the
\* column Un, a proper prefix of Unnamed, is kept in the other layout
C10_Witness ==
  /\ pc = "enrich"
  /\ HasCol(loaded, COL_INSTITUTION) /\ HasCol(loaded, COL_UNNAMED0)
  /\ ~HasCol(stripped, COL_INSTITUTION) /\ ~HasCol(stripped, COL_UNNAMED0)
  /\ Len(stripped.cols) = Len(loaded.cols) - 3
  /\ NRows(stripped) >= 1

====
